---------------------------- MODULE Spec2Model ----------------------------
(***************************************************************************)
(* Thermiser: RS-485 Heatmiser thermostat plugin.                          *)
(*   pm_crc.py   the nibble-table CCITT checksum                           *)
(*   pymiser.py  frame construction, DCB decoding, bus transactions        *)
(*   plugin.py   the job queue and the scheduler loop                      *)
(***************************************************************************)
EXTENDS Integers, Sequences, FiniteSets, TLC

(***************************************************************************)
(* Bounds of the model.                                                    *)
(***************************************************************************)
\* longest byte buffer handed to the CRC engine in SpecCRC
MaxBufLen == 4

\* longest payload handed to _form_frame in SpecFrame
MaxPayloadLen == 4

\* the requests of the host are taken while the queue holds fewer jobs than
\* this, and the loop is followed while it holds no more
MaxQueue == 2

\* elapsed times are counted up to this many seconds; an interval of
\* MaxElapsed stands for one that does not elapse during the run
MaxElapsed == 3

\* discoverDevices probes the addresses 1 .. LastProbeAddress (32 in the code)
LastProbeAddress == 2

\* the bus answers a probe with a device's block while the host knows fewer
\* devices than this
MaxDevices == 1

\* byte values the buffers are drawn from
ByteSamples == {0, 1, 129, 255}

(***************************************************************************)
(* Python values that are not byte sequences.                              *)
(***************************************************************************)
\* (byte buffers are sequences of naturals, so a sequence holding a negative
\* number stands for a value that is no buffer)
None == <<-1>>
IndexError == <<-2>>
TypeError == <<-3>>
ValueError == <<-4>>

VARIABLES
    crcObj,     \* pm_crc.crc: the accumulators (hi, lo) of the CRC object
    buf,        \* the buffer handed to the CRC engine
    verdict,    \* what verifyCCITTfromByteArray returned
    crcPhase,   \* "input", "appended", "raised", "verified", "verifiedAppended"
                \* or "off"
    fArgs,      \* the arguments of PyMiser._form_frame
    frame,      \* the frame it returned
    framePhase  \* "args", "formed" or "off"

VARIABLES
    q,                    \* Plugin.q: the FIFO of jobs
    pc,                   \* where runConcurrentThread is: "startup", "sleep",
                          \* "dequeue", "io", "sweep", "stopped", "crashed" or "off"
    cur,                  \* the job being executed (NoJob outside a job)
    phase,                \* the bus exchange the job waits in: "dcb", "clock",
                          \* "temp", "hw" or ""
    wire,                 \* comm_port: the frames written and not yet answered
    fault,                \* the exception that ended runConcurrentThread
    rx,                   \* what comm_port.read last returned in this iteration
                          \* of the loop (None before any read)
    comm_port_open,       \* Plugin.comm_port_open
    devices,              \* indigo.devices.iter("self"): the known devices
    props,                \* device.pluginProps["address"] of each device
    states,               \* device.states of each device
    deviceInfo,           \* PyMiser.deviceInfo
    sincePoll,            \* now - last_poll_time, counted up to MaxElapsed
    sinceSync,            \* now - last_clock_sync_time, counted up to MaxElapsed
    poll_interval,        \* Plugin.poll_interval
    clock_sync_interval,  \* Plugin.clock_sync_interval
    ranThisTick,          \* jobs dequeued since the loop last woke up
    hadJob                \* whether the queue held a job when the loop last
                          \* tested q.empty()

VARIABLES
    reply,      \* the bytes handed to PyMiser._parseDCB, or read by
                \* PyMiser._request_dcb
    parsed,     \* what _parseDCB returned (<<>> before it has)
    returned,   \* what update_device_info returned
    infoPhase   \* "reply", "parsed", "parseRaised", "updated", "updateRaised"
                \* or "off"

crcVars == <<crcObj, buf, verdict, crcPhase>>
infoVars == <<reply, parsed, returned, infoPhase>>
frameVars == <<fArgs, frame, framePhase>>
execVars == <<pc, cur, phase, wire, fault, rx>>
hostVars == <<devices, props, states, deviceInfo>>
timeVars == <<sincePoll, sinceSync, poll_interval, clock_sync_interval>>
tickVars == <<ranThisTick, hadJob>>
schedVars == <<q, execVars, comm_port_open, hostVars, timeVars, tickVars>>
pureVars == <<crcVars, frameVars, infoVars>>
vars == <<crcVars, frameVars, infoVars, schedVars>>

(***************************************************************************)
(* Bit operations on naturals (Python's ^, | and &).                       *)
(***************************************************************************)
RECURSIVE BitXor(_, _)
BitXor(a, b) ==
    IF a = 0 THEN b
    ELSE IF b = 0 THEN a
    ELSE (((a % 2) + (b % 2)) % 2) + 2 * BitXor(a \div 2, b \div 2)

RECURSIVE BitOr(_, _)
BitOr(a, b) ==
    IF a = 0 THEN b
    ELSE IF b = 0 THEN a
    ELSE (IF (a % 2) = 1 \/ (b % 2) = 1 THEN 1 ELSE 0) + 2 * BitOr(a \div 2, b \div 2)

RECURSIVE BitAnd(_, _)
BitAnd(a, b) ==
    IF a = 0 \/ b = 0 THEN 0
    ELSE (IF (a % 2) = 1 /\ (b % 2) = 1 THEN 1 ELSE 0) + 2 * BitAnd(a \div 2, b \div 2)

(***************************************************************************)
(* Python sequence indexing: data[:k] and data[i] with negative indices.   *)
(* Sequences here are 1-based, Python's are 0-based.                       *)
(***************************************************************************)
PySliceTo(data, k) ==
    LET n == Len(data)
        e == IF k < 0 THEN (IF k + n < 0 THEN 0 ELSE k + n)
             ELSE (IF k > n THEN n ELSE k)
    IN  SubSeq(data, 1, e)

\* the 0-based position data[i] denotes, or -1 when Python raises IndexError
PyIndex(data, i) ==
    LET n == Len(data)
        j == IF i < 0 THEN i + n ELSE i
    IN  IF j >= 0 /\ j < n THEN j ELSE -1

(***************************************************************************)
(* pm_crc.py                                                               *)
(***************************************************************************)
ltH == <<0, 16, 32, 48, 64, 80, 96, 112, 129, 145, 161, 177, 193, 209, 225, 241>>
ltL == <<0, 33, 66, 99, 132, 165, 198, 231, 8, 41, 74, 107, 140, 173, 206, 239>>

\* crc.__init__ and the first two statements of crc.ccitt
crcReset == [hi |-> 255, lo |-> 255]

\* a ^ b for bytes, tabulated once
XorTable == [a \in 0..255 |-> [b \in 0..255 |-> BitXor(a, b)]]

\* crc._updateNibble: st is the object's (hi, lo), nib the 4-bit value.
\* x << 4 is x * 16, x >> 4 is x \div 16 and x & 0xFF is x % 256; the two
\* operands of | have no bit in common, so that | adds them.
_updateNibble(st, nib) ==
    LET t   == XorTable[st.hi \div 16][nib]
        hi1 == ((st.hi * 16) + (st.lo \div 16)) % 256
        hi2 == XorTable[hi1][ltH[t + 1]] % 256
        lo1 == (st.lo * 16) % 256
        lo2 == XorTable[lo1][ltL[t + 1]] % 256
    IN  [hi |-> hi2, lo |-> lo2]

\* the loop of crc.ccitt from byte i on: byte >> 4, then byte & 0x0f.
\* (Each intermediate state is bound as a value before it is used.)
RECURSIVE ccittFold(_, _, _)
ccittFold(st, data, i) ==
    IF i > Len(data) THEN st
    ELSE CHOOSE r \in
             {ccittFold(s2, data, i + 1) :
                 s2 \in {_updateNibble(s1, data[i] % 16) :
                     s1 \in {_updateNibble(s0, data[i] \div 16) : s0 \in {st}}}} : TRUE

\* the loop of crc.ccitt over the whole of data, from the accumulators st
ccittLoop(st, data) == CHOOSE r \in {ccittFold(st, d, 1) : d \in {data}} : TRUE

\* a variant of ccittState that keeps the accumulators of the previous run
ccittStateNoReset(st, data) == ccittLoop(st, data)

\* crc.ccitt: the object's state after the call; st is its state before
ccittState(st, data) == ccittLoop(crcReset, data)

\* crc.ccitt's return value [lo, hi]
ccitt(st, data) == LET s == ccittState(st, data) IN <<s.lo, s.hi>>

\* a variant of addCCITTtoBytearray that stores the pair as (hi, lo)
addCCITTSwapped(st, data) ==
    LET n  == Len(data)
        c  == ccitt(st, PySliceTo(data, n - 2))
        p1 == PyIndex(data, n - 2)
        p2 == PyIndex(data, n - 1)
    IN  IF p1 < 0 THEN IndexError
        ELSE LET d1 == [data EXCEPT ![p1 + 1] = c[2]]
             IN  IF p2 < 0 THEN IndexError ELSE [d1 EXCEPT ![p2 + 1] = c[1]]

\* crc.addCCITTtoBytearray: the buffer returned, or IndexError
addCCITTtoBytearray(st, data) ==
    LET n  == Len(data)
        c  == ccitt(st, PySliceTo(data, n - 2))
        p1 == PyIndex(data, n - 2)
        p2 == PyIndex(data, n - 1)
    IN  IF p1 < 0 THEN IndexError
        ELSE LET d1 == [data EXCEPT ![p1 + 1] = c[1]]
             IN  IF p2 < 0 THEN IndexError ELSE [d1 EXCEPT ![p2 + 1] = c[2]]

\* a variant of verifyCCITTfromByteArray without the length check
verifyCCITTNoLength(st, data) ==
    IF data = None THEN FALSE
    ELSE LET n == Len(data)
             c == ccitt(st, PySliceTo(data, n - 2))
         IN  /\ PyIndex(data, n - 2) >= 0
             /\ data[PyIndex(data, n - 2) + 1] = c[1]
             /\ data[PyIndex(data, n - 1) + 1] = c[2]

\* crc.verifyCCITTfromByteArray
verifyCCITTfromByteArray(st, data) ==
    IF data = None THEN FALSE
    ELSE IF Len(data) < 3 THEN FALSE
    ELSE LET n == Len(data)
             c == ccitt(st, PySliceTo(data, n - 2))
         IN  data[n - 1] = c[1] /\ data[n] = c[2]

(***************************************************************************)
(* pymiser.py: constants and PyMiser._form_frame                           *)
(***************************************************************************)
FUNCTION_READ == 0
FUNCTION_WRITE == 1
MASTER_ADDRESS == 129
MIN_TEMP_C == 5
MAX_TEMP_C == 35

IsByte(x) == x >= 0 /\ x < 256

\* a variant of frameLength that leaves the checksum out of the count
frameLengthNoTrailer(payload) == 8 + (IF payload = None THEN 0 ELSE Len(payload))

\* the frame_length of _form_frame
frameLength(payload) == 10 + (IF payload = None THEN 0 ELSE Len(payload))

\* a variant of frameFunction that takes every frame for a write
frameFunctionWrite(payload) == FUNCTION_WRITE

\* the function code of _form_frame
frameFunction(payload) == IF payload = None THEN FUNCTION_READ ELSE FUNCTION_WRITE

\* PyMiser._form_frame: bytearray(frame_length), filled in, checksum stored.
\* Storing a value outside 0..255 in a bytearray raises ValueError.
_form_frame(st, destination, start, end, payload) ==
    LET payload_len  == IF payload = None THEN 0 ELSE Len(payload)
        frame_length == frameLength(payload)
        filled == [i \in 1..(10 + payload_len) |->
                     IF i = 1 THEN destination
                     ELSE IF i = 2 THEN frame_length
                     ELSE IF i = 3 THEN MASTER_ADDRESS
                     ELSE IF i = 4 THEN frameFunction(payload)
                     ELSE IF i = 5 THEN BitAnd(start, 255)
                     ELSE IF i = 6 THEN start \div 256
                     ELSE IF i = 7 THEN BitAnd(end, 255)
                     ELSE IF i = 8 THEN end \div 256
                     ELSE IF i <= 8 + payload_len THEN payload[i - 8]
                     ELSE 0]
    IN  IF \E i \in 1..(10 + payload_len) : ~IsByte(filled[i])
        THEN ValueError
        ELSE addCCITTtoBytearray(st, filled)

(***************************************************************************)
(* pymiser.py: PyMiser._parseDCB                                           *)
(***************************************************************************)
MODEL_NAMES == <<"DT", "DT-E", "PRT", "PRT-E", "PRT-HW">>
SENSOR_NAMES == <<"built-in air only", "remote air only", "floor only",
                  "built-in air + floor", "remote-air + floor">>
FROST_PROTECTION_NAMES == <<"disabled", "enabled">>
RUN_MODE_NAMES == <<"heating", "frost protection">>
PROGRAM_MODE_NAMES == <<"5/2 mode", "7 day mode">>
UNKNOWN_NAME == "(unknown)"

\* dcb[k], Python's 0-based index
At(dcb, k) == dcb[k + 1]

\* names[code] when 0 <= code < len(names), else UNKNOWN_NAME
NameOf(names, code) ==
    IF 0 <= code /\ code < Len(names) THEN names[code + 1] ELSE UNKNOWN_NAME

\* a 16-bit big-endian temperature divided by 10 (integer division), then
\* compared with 0xFFFF
\* a variant of TempQuotient that rounds to the nearest whole number
TempQuotientRounded(dcb, k) == (At(dcb, k) * 256 + At(dcb, k + 1) + 5) \div 10

TempQuotient(dcb, k) == (At(dcb, k) * 256 + At(dcb, k + 1)) \div 10

\* the test that replaces the quotient by None
TempAbsent(dcb, k) == TempQuotient(dcb, k) = 65535

TempField(dcb, k) == IF TempAbsent(dcb, k) THEN None ELSE TempQuotient(dcb, k)

\* the largest index _parseDCB reads in dcb, which decides whether it raises
\* IndexError: the model ID is read at 9+4, the fields up to heatingOn at
\* 9+35 for every model, the tail for the models other than 0 and 1
LastIndexRead(dcb) ==
    IF Len(dcb) <= 9 + 4 THEN 9 + 4
    ELSE LET model_id == At(dcb, 9 + 4)
         IN  IF model_id = 0 \/ model_id = 1 THEN 9 + 35
             ELSE IF model_id = 4 THEN 10 + 39
             ELSE 9 + 39

\* whether _parseDCB reads past the end of dcb
IndexOutOfRange(dcb) == Len(dcb) <= LastIndexRead(dcb)

\* the entries of the result up to heatingOn
DCBHead(dcb) ==
    LET o == 9
        program_mode_code == At(dcb, o + 16)
        head ==
          [frameLength |-> At(dcb, 2) * 256 + At(dcb, 1),
           address |-> At(dcb, 3),
           dcbLen |-> At(dcb, o) * 256 + At(dcb, o + 1),
           vendor |-> IF At(dcb, o + 2) = 0 THEN "Heatmiser" ELSE "o.e.m.",
           softwareVersion |-> BitAnd(At(dcb, o + 3), 127),
           floorLimitState |-> At(dcb, o + 3) \div 128,
           modelID |-> At(dcb, o + 4),
           model |-> NameOf(MODEL_NAMES, At(dcb, o + 4)),
           temperatureFormat |-> IF At(dcb, o + 5) = 0 THEN "C" ELSE "F",
           switchDifferential |-> At(dcb, o + 6),
           frostProtection |-> NameOf(FROST_PROTECTION_NAMES, At(dcb, o + 7)),
           calibrationOffset |-> At(dcb, o + 8) * 256 + At(dcb, o + 9),
           outputDelay |-> At(dcb, o + 10),
           upDownKeyLimit |-> At(dcb, o + 12),
           sensorSelectionCode |-> At(dcb, o + 13),
           sensor |-> NameOf(SENSOR_NAMES, At(dcb, o + 13)),
           optimumStart |-> At(dcb, o + 14),
           rateOfChange |-> At(dcb, o + 15),
           programModeCode |-> program_mode_code,
           frostProtectTemp |-> At(dcb, o + 17),
           setRoomTemp |-> At(dcb, o + 18),
           floorMaxLimit |-> At(dcb, o + 19),
           floorMaxLimitEnable |-> At(dcb, o + 19),
           On |-> At(dcb, o + 21),
           keyLock |-> At(dcb, o + 22),
           runMode |-> NameOf(RUN_MODE_NAMES, At(dcb, o + 23)),
           holidayHours |-> At(dcb, o + 24) * 256 + At(dcb, o + 25),
           tempHoldMinutes |-> At(dcb, o + 26) * 256 + At(dcb, o + 27),
           remoteAirTemp |-> TempField(dcb, o + 28),
           floorTemp |-> TempField(dcb, o + 30),
           airTemp |-> TempField(dcb, o + 32),
           heatingOn |-> At(dcb, o + 35)]
    IN  IF 0 <= program_mode_code /\ program_mode_code < Len(PROGRAM_MODE_NAMES)
        THEN head @@ [programMode |-> PROGRAM_MODE_NAMES[program_mode_code + 1]]
        ELSE head

\* a variant of DCBClock that reads at 9+36 .. 9+39 whatever dcb_offset is
DCBClockUnshifted(dcb, o) ==
    [weekDayNumber |-> At(dcb, 9 + 36),
     timeHour |-> At(dcb, 9 + 37),
     timeMinute |-> At(dcb, 9 + 38),
     timeSecond |-> At(dcb, 9 + 39)]

\* the clock echo, read at dcb_offset + 36 .. dcb_offset + 39
DCBClock(dcb, o) ==
    [weekDayNumber |-> At(dcb, o + 36),
     timeHour |-> At(dcb, o + 37),
     timeMinute |-> At(dcb, o + 38),
     timeSecond |-> At(dcb, o + 39)]

\* a variant of _parseDCB that reads hotWaterOn for the models 2 and 3 too
_parseDCBHotWaterAlways(dcb) ==
    IF IndexOutOfRange(dcb) THEN IndexError
    ELSE LET model_id == At(dcb, 9 + 4)
         IN  IF model_id = 0 \/ model_id = 1 THEN DCBHead(dcb)
             ELSE DCBHead(dcb) @@ [hotWaterOn |-> At(dcb, 9 + 36)]
                      @@ DCBClock(dcb, IF model_id = 4 THEN 9 + 1 ELSE 9)

\* PyMiser._parseDCB: the dictionary, or IndexError
_parseDCB(dcb) ==
    IF IndexOutOfRange(dcb) THEN IndexError
    ELSE LET model_id == At(dcb, 9 + 4)
         IN  IF model_id = 0 \/ model_id = 1 THEN DCBHead(dcb)
             ELSE IF model_id = 4
                  THEN DCBHead(dcb) @@ [hotWaterOn |-> At(dcb, 9 + 36)]
                           @@ DCBClock(dcb, 9 + 1)
                  ELSE DCBHead(dcb) @@ DCBClock(dcb, 9)

(***************************************************************************)
(* pymiser.py: the range check of PyMiser.set_temp and the clock payload   *)
(***************************************************************************)
TEMP_UNIT_CELSIUS == 0
TEMP_UNIT_FAHRENHEIT == 1
\* stands for the string TEMP_UNIT_SYMBOL_CELSIUS, which _setRoomTemp passes
\* as the unit of a Celsius device
TEMP_UNIT_SYMBOL_CELSIUS == 2

\* PyMiser.fahrenheit, on the values whose result is a whole number
fahrenheit(celsius) == (celsius * 9) \div 5 + 32

\* a variant of tempAccepted whose lower limit is one degree too low
tempAcceptedFromFour(temp, temperature_unit) ==
    LET minimum_set_temperature ==
            IF temperature_unit = TEMP_UNIT_FAHRENHEIT
            THEN fahrenheit(MIN_TEMP_C - 1) ELSE MIN_TEMP_C - 1
        maximum_set_temperature ==
            IF temperature_unit = TEMP_UNIT_FAHRENHEIT
            THEN fahrenheit(MAX_TEMP_C) ELSE MAX_TEMP_C
    IN  ~(temp < minimum_set_temperature) /\ ~(temp > maximum_set_temperature)

\* set_temp: whether temp passes the two range tests
tempAccepted(temp, temperature_unit) ==
    LET minimum_set_temperature ==
            IF temperature_unit = TEMP_UNIT_FAHRENHEIT
            THEN fahrenheit(MIN_TEMP_C) ELSE MIN_TEMP_C
        maximum_set_temperature ==
            IF temperature_unit = TEMP_UNIT_FAHRENHEIT
            THEN fahrenheit(MAX_TEMP_C) ELSE MAX_TEMP_C
    IN  ~(temp < minimum_set_temperature) /\ ~(temp > maximum_set_temperature)

\* _syncClock: the payload for the local time dt
clockPayload(dt) ==
    LET second == dt.second + 2
    IN  <<dt.weekday, dt.hour, dt.minute, IF second > 59 THEN second - 59 ELSE second>>

(***************************************************************************)
(* plugin.py: the host's devices, the jobs, the replies of the bus         *)
(***************************************************************************)
\* pluginProps without "address", and with an address that is no integer
NoAddress == -1
BadAddress == -2

\* an action whose setRoomTemp property is no number
NotANumber == -1000

\* the devices known at startup, and the addresses they may be configured with
Devices == {1}
PropsChoices == {<<3>>, <<NoAddress>>, <<BadAddress>>}
StatesChoices ==
    {<<[temperatureFormat |-> "C", setRoomTemp |-> 20]>>,
     <<[temperatureFormat |-> "F", setRoomTemp |-> 68]>>}

\* the states of a device the host has just created
NewDeviceStates == [temperatureFormat |-> "", setRoomTemp |-> 0]

\* the temperatures of the set-room-temperature actions
ActionTemps == {4, 20, NotANumber}

\* datetime.datetime.now() when a clock sync runs
ClockSamples == {[weekday |-> 7, hour |-> 23, minute |-> 59, second |-> 58]}

\* seconds between two readings of time.time() by the loop
Deltas == {1, 2}

pollJob(device) == [f |-> "_pollDevice", device |-> device, arg |-> 0]
syncJob(device) == [f |-> "_syncDeviceClock", device |-> device, arg |-> 0]
tempJob(temp, device) == [f |-> "_setRoomTemp", device |-> device, arg |-> temp]
hwJob(device, state) == [f |-> "_setHotWaterOnState", device |-> device, arg |-> state]
probeJob(address) == [f |-> "_discoverDevice", device |-> 0, arg |-> address]

\* a status reply of n bytes from a device: header, DCB at offset 9, checksum
DcbReply(address, model_id, format, set_temp, n) ==
    addCCITTtoBytearray(crcReset,
        [i \in 1..n |->
            IF i = 1 THEN MASTER_ADDRESS
            ELSE IF i = 2 THEN n
            ELSE IF i = 4 THEN address
            ELSE IF i = 9 + 4 + 1 THEN model_id
            ELSE IF i = 9 + 5 + 1 THEN format
            ELSE IF i = 9 + 18 + 1 THEN set_temp
            ELSE IF i = 9 + 33 + 1 THEN 215
            ELSE 0])

\* the 7-byte acknowledgement of a write
AckReply == addCCITTtoBytearray(crcReset, <<MASTER_ADDRESS, 7, 0, 3, 1, 0, 0>>)
\* the same with a wrong checksum
BadCrcReply == [AckReply EXCEPT ![7] = (AckReply[7] + 1) % 256]
\* three bytes with a valid checksum
ShortReply == addCCITTtoBytearray(crcReset, <<MASTER_ADDRESS, 0, 0>>)
\* status replies of a PRT at address 3 and of a PRT-HW at address 1
PrtReply == DcbReply(3, 2, 0, 20, 51)
HwReply == DcbReply(1, 4, 1, 68, 52)

\* what comm_port.read(MAX_REPLY_SIZE) may return: nothing within the
\* timeout, or one of the replies above
ReplySamples == {<<>>, AckReply, BadCrcReply, ShortReply, PrtReply, HwReply}

\* verifyCCITTfromByteArray and _parseDCB on each of them, tabulated once
\* (ccitt sets both accumulators before it reads them, so that the state the
\* CRC object was left in does not matter)
replyOK == [r \in ReplySamples |-> verifyCCITTfromByteArray(crcReset, r)]
replyInfo == [r \in ReplySamples |-> IF replyOK[r] THEN _parseDCB(r) ELSE None]

\* a variant of qput that puts the jobs at the head
qputFront(queue, jobs) == jobs \o queue

\* Queue.put, for each of jobs in turn
qput(queue, jobs) == queue \o jobs

\* a variant of afterJob that goes on with the next job while there is one
afterJobDrain(queue) == IF queue # <<>> THEN "dequeue" ELSE "sweep"

\* runConcurrentThread: where the loop goes on when the job's function
\* returned (the two tests of the elapsed times)
afterJob(queue) == "sweep"

\* a variant of requeue that gives the job up
requeueNever(job) == <<>>

\* the job put again by its own function when the exchange failed
requeue(job) == <<job>>

\* Plugin._addressFromProps: (True, address), or the bare False
_addressFromProps(device) ==
    IF props[device] = NoAddress THEN <<FALSE>>
    ELSE IF props[device] = BadAddress THEN <<FALSE>>
    ELSE <<TRUE, props[device]>>

\* Plugin._knownDeviceAddresses
_knownDeviceAddresses ==
    {props[d] : d \in {e \in devices : props[e] # NoAddress /\ props[e] # BadAddress}}

(***************************************************************************)
(* The CRC engine on its own: a buffer is drawn, other computations may   *)
(* run on the same object, the checksum is stored and verified.           *)
(***************************************************************************)
RECURSIVE SeqsUpTo(_, _)
SeqsUpTo(S, n) ==
    IF n = 0 THEN {<<>>}
    ELSE LET shorter == SeqsUpTo(S, n - 1)
         IN  shorter \cup {Append(b, x) : b \in {c \in shorter : Len(c) = n - 1}, x \in S}

Buffers == SeqsUpTo(ByteSamples, MaxBufLen)

\* buffers other computations are run on before the one under test
HistoryBuffers == {<<>>, <<1>>, <<129, 255>>}

CrcOff ==
    /\ crcObj = crcReset
    /\ buf = <<>>
    /\ verdict = FALSE
    /\ crcPhase = "off"

NoJob == [f |-> "", device |-> 0, arg |-> 0]

InfoOff ==
    /\ reply = <<>>
    /\ parsed = <<>>
    /\ returned = FALSE
    /\ infoPhase = "off"

\* the plugin apart from PyMiser.deviceInfo
PluginOff ==
    /\ q = <<>>
    /\ pc = "off"
    /\ cur = NoJob
    /\ phase = ""
    /\ wire = <<>>
    /\ fault = ""
    /\ rx = None
    /\ comm_port_open = FALSE
    /\ devices = {}
    /\ props = <<>>
    /\ states = <<>>
    /\ sincePoll = 0
    /\ sinceSync = 0
    /\ poll_interval = 0
    /\ clock_sync_interval = 0
    /\ ranThisTick = 0
    /\ hadJob = FALSE

SchedOff == PluginOff /\ deviceInfo = <<>>

FrameOff ==
    /\ fArgs = <<>>
    /\ frame = <<>>
    /\ framePhase = "off"

\* destinations, register ranges and payloads _form_frame is called with
FrameDestinations == {1, 31, 255}
FrameRegisters == {<<0, 65535>>, <<18, 1>>, <<42, 1>>, <<43, 4>>}
FramePayloads == SeqsUpTo({0, 20, 255}, MaxPayloadLen) \cup {None}

InitCRC ==
    /\ crcObj = crcReset
    /\ buf \in Buffers \cup {None}
    /\ verdict = FALSE
    /\ crcPhase = "input"
    /\ FrameOff
    /\ InfoOff
    /\ SchedOff

\* crc.ccitt on other buf, before the buffer under test is used
CrcCcitt(b) ==
    /\ crcPhase = "input"
    /\ crcObj' = ccittState(crcObj, b)
    /\ UNCHANGED <<buf, verdict, crcPhase>>
    /\ UNCHANGED <<frameVars, infoVars, schedVars>>

\* crc.addCCITTtoBytearray(buf)
CrcAppend ==
    /\ crcPhase = "input"
    /\ IF buf = None
       THEN /\ buf' = TypeError
            /\ crcPhase' = "raised"
            /\ UNCHANGED crcObj
       ELSE /\ buf' = addCCITTtoBytearray(crcObj, buf)
            /\ crcObj' = ccittState(crcObj, PySliceTo(buf, Len(buf) - 2))
            /\ crcPhase' = IF buf' = IndexError THEN "raised" ELSE "appended"
    /\ UNCHANGED verdict
    /\ UNCHANGED <<frameVars, infoVars, schedVars>>

\* crc.verifyCCITTfromByteArray(buf), on the drawn buffer or on the buffer
\* addCCITTtoBytearray returned
CrcVerify ==
    /\ crcPhase \in {"input", "appended"}
    /\ verdict' = verifyCCITTfromByteArray(crcObj, buf)
    /\ crcObj' = IF buf = None \/ Len(buf) < 3 THEN crcObj
                 ELSE ccittState(crcObj, PySliceTo(buf, Len(buf) - 2))
    /\ crcPhase' = IF crcPhase = "appended" THEN "verifiedAppended" ELSE "verified"
    /\ UNCHANGED buf
    /\ UNCHANGED <<frameVars, infoVars, schedVars>>

NextCRC ==
    \/ \E b \in HistoryBuffers : CrcCcitt(b)
    \/ CrcAppend
    \/ CrcVerify

SpecCRC == InitCRC /\ [][NextCRC]_vars

(***************************************************************************)
(* The frame codec on its own: arguments are drawn, the frame is built.    *)
(***************************************************************************)
InitFrame ==
    /\ CrcOff
    /\ InfoOff
    /\ SchedOff
    /\ fArgs \in [destination : FrameDestinations, range : FrameRegisters,
                   payload : FramePayloads]
    /\ frame = <<>>
    /\ framePhase = "args"

FormFrame ==
    /\ framePhase = "args"
    /\ frame' = _form_frame(crcObj, fArgs.destination, fArgs.range[1],
                           fArgs.range[2], fArgs.payload)
    /\ framePhase' = "formed"
    /\ UNCHANGED <<fArgs, crcVars, infoVars, schedVars>>

NextFrame == FormFrame

SpecFrame == InitFrame /\ [][NextFrame]_vars

(***************************************************************************)
(* plugin.py: how a job's function ends or blocks.  rest is the queue and  *)
(* w the frames pending on the port when it does.                          *)
(***************************************************************************)
\* the function returned, having put the jobs puts
Return(rest, w, puts) ==
    /\ q' = qput(rest, puts)
    /\ wire' = w
    /\ pc' = afterJob(q')
    /\ cur' = NoJob
    /\ phase' = ""
    /\ UNCHANGED fault

\* the function raised exc, which runConcurrentThread does not catch
Raise(rest, w, exc) ==
    /\ q' = rest
    /\ wire' = w
    /\ pc' = "crashed"
    /\ fault' = exc
    /\ cur' = NoJob
    /\ phase' = ""

\* comm_port.write(frm), then the function blocks in comm_port.read; on a
\* port that is not open write raises
Exchange(rest, w, job, ph, frm) ==
    IF frm = ValueError THEN Raise(rest, w, "ValueError")
    ELSE IF ~comm_port_open THEN Raise(rest, w, "SerialException")
    ELSE /\ q' = rest
         /\ wire' = Append(w, frm)
         /\ pc' = "io"
         /\ cur' = job
         /\ phase' = ph
         /\ UNCHANGED fault

\* PyMiser.set_temp up to its write; both callers put the job again when it
\* returns False
set_temp(rest, w, job, address, temp, temperature_unit) ==
    IF ~tempAccepted(temp, temperature_unit)
    THEN Return(rest, w, requeue(job))
    ELSE Exchange(rest, w, job, "temp", _form_frame(crcReset, address, 18, 1, <<temp>>))

(***************************************************************************)
(* plugin.py: the functions of the jobs, up to their first bus write       *)
(***************************************************************************)
_pollDevice(job, rest) ==
    /\ IF ~comm_port_open THEN Return(rest, wire, <<>>)
       ELSE LET a == _addressFromProps(job.device)
            IN  IF Len(a) # 2 THEN Raise(rest, wire, "TypeError")
                ELSE Exchange(rest, wire, job, "dcb",
                              _form_frame(crcReset, a[2], 0, 65535, None))
    /\ UNCHANGED hostVars

_syncDeviceClock(job, rest) ==
    /\ LET a == _addressFromProps(job.device)
       IN  IF Len(a) # 2 THEN Raise(rest, wire, "TypeError")
           ELSE \E dt \in ClockSamples :
                    Exchange(rest, wire, job, "clock",
                             _form_frame(crcReset, a[2], 43, 4, clockPayload(dt)))
    /\ UNCHANGED hostVars

\* the unit _setRoomTemp and _syncDeviceClock pass to set_temp
unitOf(device, celsius) ==
    IF states[device].temperatureFormat = "F" THEN TEMP_UNIT_FAHRENHEIT ELSE celsius

_setRoomTemp(job, rest) ==
    /\ IF job.arg = NotANumber THEN Return(rest, wire, <<>>)
       ELSE LET a == _addressFromProps(job.device)
            IN  IF Len(a) # 2 THEN Raise(rest, wire, "TypeError")
                ELSE set_temp(rest, wire, job, a[2], job.arg,
                              unitOf(job.device, TEMP_UNIT_SYMBOL_CELSIUS))
    /\ UNCHANGED hostVars

_setHotWaterOnState(job, rest) ==
    /\ LET a == _addressFromProps(job.device)
       IN  IF Len(a) # 2 THEN Raise(rest, wire, "TypeError")
           ELSE Exchange(rest, wire, job, "hw",
                         _form_frame(crcReset, a[2], 42, 1, <<job.arg>>))
    /\ UNCHANGED hostVars

_discoverDevice(job, rest) ==
    /\ Exchange(rest, wire, job, "dcb", _form_frame(crcReset, job.arg, 0, 65535, None))
    /\ UNCHANGED hostVars

(***************************************************************************)
(* plugin.py and pymiser.py: the functions from the reply r on             *)
(***************************************************************************)
\* update_device_info from the reply on, then the rest of _pollDevice.  Of
\* the states it reports, setRoomTemp and temperatureFormat are the ones
\* the plugin reads again.
_pollDeviceReply(r) ==
    IF ~replyOK[r]
    THEN Return(q, Tail(wire), requeue(cur)) /\ UNCHANGED hostVars
    ELSE IF IndexOutOfRange(r)
    THEN Raise(q, Tail(wire), "IndexError") /\ UNCHANGED hostVars
    ELSE /\ deviceInfo' = replyInfo[r]
         /\ states' = [states EXCEPT ![cur.device] =
                          [temperatureFormat |-> replyInfo[r].temperatureFormat,
                           setRoomTemp |-> replyInfo[r].setRoomTemp]]
         /\ Return(q, Tail(wire), <<>>)
         /\ UNCHANGED <<devices, props>>

\* a variant of _syncClockReply that accepts a reply of any length
_syncClockReplyAnyLength(r) ==
    /\ IF ~replyOK[r]
       THEN Return(q, Tail(wire), requeue(cur))
       ELSE set_temp(q, Tail(wire), cur, _addressFromProps(cur.device)[2],
                     states[cur.device].setRoomTemp,
                     unitOf(cur.device, TEMP_UNIT_CELSIUS))
    /\ UNCHANGED hostVars

\* _syncClock from the reply on, then syncClock's call of set_temp
_syncClockReply(r) ==
    /\ IF Len(r) # 7 \/ ~replyOK[r]
       THEN Return(q, Tail(wire), requeue(cur))
       ELSE set_temp(q, Tail(wire), cur, _addressFromProps(cur.device)[2],
                     states[cur.device].setRoomTemp,
                     unitOf(cur.device, TEMP_UNIT_CELSIUS))
    /\ UNCHANGED hostVars

\* a variant of set_tempReply that never puts the job again
set_tempReplyNoRetry(r) ==
    /\ IF cur.f = "_setRoomTemp" /\ replyOK[r]
       THEN Return(q, Tail(wire), <<pollJob(cur.device)>>)
       ELSE Return(q, Tail(wire), <<>>)
    /\ UNCHANGED hostVars

\* set_temp from the reply on, then the rest of _setRoomTemp or of
\* _syncDeviceClock
set_tempReply(r) ==
    /\ IF ~replyOK[r] THEN Return(q, Tail(wire), requeue(cur))
       ELSE IF cur.f = "_setRoomTemp"
       THEN Return(q, Tail(wire), <<pollJob(cur.device)>>)
       ELSE Return(q, Tail(wire), <<>>)
    /\ UNCHANGED hostVars

\* set_hw_on_state from the reply on, then the rest of _setHotWaterOnState
set_hw_on_stateReply(r) ==
    /\ IF ~replyOK[r] THEN Return(q, Tail(wire), requeue(cur))
       ELSE Return(q, Tail(wire), <<pollJob(cur.device)>>)
    /\ UNCHANGED hostVars

\* update_device_info from the reply on, then _addNewDevice
_discoverDeviceReply(r) ==
    IF ~replyOK[r]
    THEN Return(q, Tail(wire), <<>>) /\ UNCHANGED hostVars
    ELSE IF IndexOutOfRange(r)
    THEN Raise(q, Tail(wire), "IndexError") /\ UNCHANGED hostVars
    ELSE /\ Cardinality(devices) < MaxDevices
         /\ deviceInfo' = replyInfo[r]
         /\ IF replyInfo[r].modelID = 2 \/ replyInfo[r].modelID = 4
            THEN LET new == Cardinality(devices) + 1
                 IN  /\ devices' = devices \cup {new}
                     /\ props' = Append(props, replyInfo[r].address)
                     /\ states' = Append(states, NewDeviceStates)
            ELSE UNCHANGED <<devices, props, states>>
         /\ Return(q, Tail(wire), <<>>)

(***************************************************************************)
(* plugin.py: runConcurrentThread                                          *)
(***************************************************************************)
Min(a, b) == IF a < b THEN a ELSE b

\* Plugin.startup: openCommPort succeeds or not
startup ==
    /\ pc = "startup"
    /\ \E ok \in BOOLEAN : comm_port_open' = ok
    /\ pc' = "sleep"
    /\ UNCHANGED <<q, cur, phase, wire, fault, rx, hostVars, timeVars, tickVars, pureVars>>

\* self.sleep(1); now = time.time()
Wake ==
    /\ pc = "sleep"
    /\ Len(q) <= MaxQueue
    /\ \E delta \in Deltas :
          /\ sincePoll' = Min(sincePoll + delta, MaxElapsed)
          /\ sinceSync' = Min(sinceSync + delta, MaxElapsed)
    /\ pc' = "dequeue"
    /\ ranThisTick' = 0
    /\ hadJob' = FALSE
    /\ UNCHANGED <<q, cur, phase, wire, fault, rx, comm_port_open, hostVars,
                   poll_interval, clock_sync_interval, pureVars>>

\* self.sleep raises StopThread: the plugin is shut down
Shutdown ==
    /\ pc = "sleep"
    /\ pc' = "stopped"
    /\ UNCHANGED <<q, cur, phase, wire, fault, rx, comm_port_open, hostVars,
                   timeVars, tickVars, pureVars>>

\* if not self.q.empty(): job = self.q.get(); f(*args)
Dequeue ==
    /\ pc = "dequeue"
    /\ hadJob' = (q # <<>>)
    /\ rx' = None
    /\ IF q = <<>>
       THEN /\ pc' = "sweep"
            /\ UNCHANGED <<q, cur, phase, wire, fault, hostVars, ranThisTick>>
       ELSE /\ ranThisTick' = ranThisTick + 1
            /\ LET job == Head(q)
                   rest == Tail(q)
               IN  CASE job.f = "_pollDevice" -> _pollDevice(job, rest)
                     [] job.f = "_syncDeviceClock" -> _syncDeviceClock(job, rest)
                     [] job.f = "_setRoomTemp" -> _setRoomTemp(job, rest)
                     [] job.f = "_setHotWaterOnState" -> _setHotWaterOnState(job, rest)
                     [] job.f = "_discoverDevice" -> _discoverDevice(job, rest)
    /\ UNCHANGED <<comm_port_open, timeVars, pureVars>>

\* comm_port.read(MAX_REPLY_SIZE) returns r, and the job's function goes on
ReadFrom(replies) ==
    /\ pc = "io"
    /\ \E r \in replies :
          /\ rx' = r
          /\ CASE cur.f = "_pollDevice" -> _pollDeviceReply(r)
               [] cur.f = "_discoverDevice" -> _discoverDeviceReply(r)
               [] phase = "clock" -> _syncClockReply(r)
               [] phase = "temp" -> set_tempReply(r)
               [] phase = "hw" -> set_hw_on_stateReply(r)
    /\ UNCHANGED <<comm_port_open, timeVars, tickVars, pureVars>>

BusReply == ReadFrom(ReplySamples)

\* a variant of pollAllDevices that puts the poll of every device twice
pollAllDevicesTwice ==
    [i \in 1..(2 * Cardinality(devices)) |-> pollJob((i + 1) \div 2)]

\* the jobs pollAllDevices and syncAllDeviceClocks put
pollAllDevices == [i \in 1..Cardinality(devices) |-> pollJob(i)]
syncAllDeviceClocks == [i \in 1..Cardinality(devices) |-> syncJob(i)]

\* the two tests of the elapsed times, which end the iteration
Sweep ==
    /\ pc = "sweep"
    /\ LET pollDue == sincePoll > poll_interval
           syncDue == sinceSync > clock_sync_interval
       IN  /\ q' = qput(qput(q, IF pollDue THEN pollAllDevices ELSE <<>>),
                        IF syncDue THEN syncAllDeviceClocks ELSE <<>>)
           /\ sincePoll' = IF pollDue THEN 0 ELSE sincePoll
           /\ sinceSync' = IF syncDue THEN 0 ELSE sinceSync
    /\ pc' = "sleep"
    /\ rx' = None
    /\ UNCHANGED <<cur, phase, wire, fault, comm_port_open, hostVars,
                   poll_interval, clock_sync_interval, tickVars, pureVars>>

(***************************************************************************)
(* plugin.py: the requests of the host, made from other threads            *)
(***************************************************************************)
Running == pc \in {"sleep", "dequeue", "io", "sweep"}

\* the jobs queued or in execution
Load == Len(q) + (IF cur = NoJob THEN 0 ELSE 1)

\* a variant of Request that puts the jobs ahead of the waiting ones
RequestFront(jobs) ==
    /\ Running
    /\ Load < MaxQueue
    /\ q' = qputFront(q, jobs)
    /\ UNCHANGED <<execVars, comm_port_open, hostVars, timeVars, tickVars, pureVars>>

\* self.q.put(job), and nothing else
Request(jobs) ==
    /\ Running
    /\ Load < MaxQueue
    /\ q' = qput(q, jobs)
    /\ UNCHANGED <<execVars, comm_port_open, hostVars, timeVars, tickVars, pureVars>>

\* a variant of setRoomTemp that writes the frame itself
setRoomTempDirect(temp, device) ==
    /\ Running
    /\ Load < MaxQueue
    /\ Len(_addressFromProps(device)) = 2
    /\ wire' = Append(wire, _form_frame(crcReset, _addressFromProps(device)[2],
                                        18, 1, <<temp>>))
    /\ UNCHANGED <<q, pc, cur, phase, fault, rx, comm_port_open, hostVars,
                   timeVars, tickVars, pureVars>>

pollDevice(device) == Request(<<pollJob(device)>>)
syncDeviceClock(device) == Request(<<syncJob(device)>>)
setRoomTemp(temp, device) == Request(<<tempJob(temp, device)>>)
setHotWaterOn(device) == Request(<<hwJob(device, 1)>>)
setHotWaterAsScheduled(device) == Request(<<hwJob(device, 0)>>)

\* the addresses discoverDevices probes, in order
RECURSIVE probeJobs(_, _)
probeJobs(address, known) ==
    IF address > LastProbeAddress THEN <<>>
    ELSE (IF address \in known THEN <<>> ELSE <<probeJob(address)>>)
             \o probeJobs(address + 1, known)

\* a variant of discoverDevices that probes the known addresses too
discoverDevicesAll == Request(probeJobs(1, {}))

discoverDevices == Request(probeJobs(1, _knownDeviceAddresses))

(***************************************************************************)
(* The plugin: startup, the loop, the requests.                            *)
(***************************************************************************)
Init ==
    /\ q = <<>>
    /\ pc = "startup"
    /\ cur = NoJob
    /\ phase = ""
    /\ wire = <<>>
    /\ fault = ""
    /\ rx = None
    /\ comm_port_open = FALSE
    /\ \/ devices = {} /\ props = <<>> /\ states = <<>>
       \/ devices = Devices /\ props \in PropsChoices /\ states \in StatesChoices
    /\ deviceInfo = <<>>
    /\ sincePoll = MaxElapsed
    /\ sinceSync = MaxElapsed
    /\ poll_interval = 1
    /\ clock_sync_interval = 2
    /\ ranThisTick = 0
    /\ hadJob = FALSE
    /\ CrcOff
    /\ FrameOff
    /\ InfoOff

Next ==
    \/ startup
    \/ Wake
    \/ Shutdown
    \/ Dequeue
    \/ BusReply
    \/ Sweep
    \/ \E d \in devices : pollDevice(d)
    \/ \E d \in devices : syncDeviceClock(d)
    \/ \E d \in devices, t \in ActionTemps : setRoomTemp(t, d)
    \/ \E d \in devices : setHotWaterOn(d)
    \/ \E d \in devices : setHotWaterAsScheduled(d)
    \/ discoverDevices

Spec == Init /\ [][Next]_vars

(***************************************************************************)
(* C1: in every iteration of the loop at most one job is taken from the    *)
(* queue and executed: exactly one when the queue is not empty at the      *)
(* loop's test, none when it is empty, and then the iteration goes to the  *)
(* sweeps with nothing written to the port and no job in execution; a job  *)
(* put during the iteration is not executed in it.                         *)
(***************************************************************************)
C1_OneJobPerTick ==
    /\ ranThisTick <= 1
    /\ pc = "io" => ranThisTick = 1 /\ hadJob
    /\ pc = "sweep" => ranThisTick = (IF hadJob THEN 1 ELSE 0)
    /\ (pc = "sweep" /\ ~hadJob) => wire = <<>> /\ cur = NoJob /\ rx = None

\* a job has been executed and put again, and the iteration has gone on to
\* the sweeps without executing it or the job queued behind it
C1_Witness ==
    /\ pc = "sweep"
    /\ ranThisTick = 1
    /\ rx = BadCrcReply
    /\ Len(q) >= 2

(***************************************************************************)
(* C2 (as stated): when the job at the head is executed and gets no valid  *)
(* reply, the queue after the execution is the queue without its head      *)
(* followed by the same job, for every kind of job.                        *)
(***************************************************************************)
TakesHead == pc = "dequeue" /\ pc' = "io" => cur' = Head(q) /\ q' = Tail(q)

\* the job in execution reads bytes that are no valid reply
NoValidReply == pc = "io" /\ rx' # None /\ ~replyOK[rx']

C2_AnyJobToTail ==
    [][/\ TakesHead
       /\ NoValidReply => q' = Append(q, cur)]_vars

(***************************************************************************)
(* C2 (amended): when a poll, clock-sync, set-temperature or hot-water job *)
(* at the head is executed and gets no valid reply, the queue after the    *)
(* execution is the queue without its head followed by the same job; the   *)
(* jobs behind it keep their order.  A discovery probe is not put again.   *)
(***************************************************************************)
RetryKinds == {"_pollDevice", "_syncDeviceClock", "_setRoomTemp", "_setHotWaterOnState"}

C2_FailedJobToTail ==
    [][/\ TakesHead
       /\ (NoValidReply /\ cur.f \in RetryKinds) => q' = Append(q, cur)
       /\ (NoValidReply /\ cur.f \notin RetryKinds) => q' = q]_vars

\* a poll has just failed on a reply with a bad checksum and stands behind
\* the clock sync that was queued after it
C2_Witness ==
    /\ pc = "sweep"
    /\ rx = BadCrcReply
    /\ q = <<syncJob(1), pollJob(1)>>

(***************************************************************************)
(* C4 (as stated): a set-temperature job whose temperature is outside the  *)
(* accepted range is dropped: the execution leaves the queue without it.   *)
(***************************************************************************)
OutOfRangeAtHead ==
    /\ pc = "dequeue"
    /\ q # <<>>
    /\ Head(q).f = "_setRoomTemp"
    /\ Head(q).arg # NotANumber
    /\ Len(_addressFromProps(Head(q).device)) = 2
    /\ ~tempAccepted(Head(q).arg, unitOf(Head(q).device, TEMP_UNIT_SYMBOL_CELSIUS))

C4_OutOfRangeDropped == [][OutOfRangeAtHead => q' = Tail(q)]_vars

(***************************************************************************)
(* C5 (as stated): whatever bytes the port returns to a job, the job does  *)
(* not raise out of the loop.                                              *)
(***************************************************************************)
C5_NoReplyRaises == ~(pc = "crashed" /\ rx # None)

(***************************************************************************)
(* C6: the requests of the host only put jobs; frames are written to the   *)
(* port only by the job in execution, so that at most one frame is waiting *)
(* for its reply at any time.                                              *)
(***************************************************************************)
C6_OneExchange ==
    /\ Len(wire) <= 1
    /\ wire # <<>> => pc = "io" /\ cur # NoJob
    /\ pc = "io" => Len(wire) = 1
    /\ rx # None => ranThisTick = 1

\* a request has put a job while another job waits for its reply
C6_Witness ==
    /\ pc = "io"
    /\ Len(wire) = 1
    /\ q # <<>>
    /\ cur.f = "_setRoomTemp"
    /\ q[Len(q)].f = "_setRoomTemp"

(***************************************************************************)
(* The loop with a device that never answers: every read times out or      *)
(* returns bytes with a bad checksum.  The port is open, the device has an *)
(* address, and no sweep comes due.  The loop's thread keeps running: its  *)
(* sleep returns and its read has a timeout.                               *)
(***************************************************************************)
NoReplySamples == {<<>>, BadCrcReply}

\* temperatures of the set-temperature requests: one in the Celsius range,
\* one in the Fahrenheit range
RetryTemps == {20, 68}

NoReply == ReadFrom(NoReplySamples)

InitRetry ==
    /\ q = <<>>
    /\ pc = "sleep"
    /\ cur = NoJob
    /\ phase = ""
    /\ wire = <<>>
    /\ fault = ""
    /\ rx = None
    /\ comm_port_open = TRUE
    /\ devices = Devices
    /\ props = <<3>>
    /\ states \in StatesChoices
    /\ deviceInfo = <<>>
    /\ sincePoll = 0
    /\ sinceSync = 0
    /\ poll_interval = MaxElapsed
    /\ clock_sync_interval = MaxElapsed
    /\ ranThisTick = 0
    /\ hadJob = FALSE
    /\ CrcOff
    /\ FrameOff
    /\ InfoOff

Tick == Wake \/ Dequeue \/ NoReply \/ Sweep

NextRetry ==
    \/ Wake
    \/ Dequeue
    \/ NoReply
    \/ Sweep
    \/ \E d \in devices : pollDevice(d)
    \/ \E d \in devices : syncDeviceClock(d)
    \/ \E d \in devices, t \in RetryTemps : setRoomTemp(t, d)
    \/ \E d \in devices : setHotWaterOn(d)
    \/ \E d \in devices : setHotWaterAsScheduled(d)

SpecRetry == InitRetry /\ [][NextRetry]_vars /\ WF_vars(Tick)

(***************************************************************************)
(* C3: a poll, clock-sync, set-temperature or hot-water job whose exchange *)
(* gets no reply or a reply with a bad checksum is put again and executed  *)
(* again: while the device does not answer, a job that is queued or in     *)
(* execution is executed again and again, without end.                     *)
(***************************************************************************)
RetryJobs ==
    {pollJob(1), syncJob(1), hwJob(1, 1), hwJob(1, 0)}
        \cup {tempJob(t, 1) : t \in RetryTemps}

Pending(job) == cur = job \/ \E i \in 1..Len(q) : q[i] = job

\* the job's function gets as far as an exchange on the bus
Transacts(job) ==
    job.f = "_setRoomTemp" =>
        tempAccepted(job.arg, unitOf(job.device, TEMP_UNIT_SYMBOL_CELSIUS))

C3_RetriedForever ==
    \A job \in RetryJobs :
        []((Pending(job) /\ Transacts(job)) => []<>(pc = "io" /\ cur = job))

\* a clock sync got a reply with a bad checksum and is queued again
C3_Witness ==
    /\ pc = "sweep"
    /\ rx = BadCrcReply
    /\ q = <<syncJob(1)>>
    /\ poll_interval = MaxElapsed
    /\ sincePoll > 0

(***************************************************************************)
(* PyMiser.set_temp on its own: one set-temperature job for a device with  *)
(* an address, the port open, no sweep due.                                *)
(***************************************************************************)
SetTempSamples == {4, 5, 35, 36, 40, 41, 95, 96}

InitSetTemp ==
    /\ \E temp \in SetTempSamples : q = <<tempJob(temp, 1)>>
    /\ pc = "sleep"
    /\ cur = NoJob
    /\ phase = ""
    /\ wire = <<>>
    /\ fault = ""
    /\ rx = None
    /\ comm_port_open = TRUE
    /\ devices = Devices
    /\ props = <<3>>
    /\ states \in StatesChoices
    /\ deviceInfo = <<>>
    /\ sincePoll = 0
    /\ sinceSync = 0
    /\ poll_interval = MaxElapsed
    /\ clock_sync_interval = MaxElapsed
    /\ ranThisTick = 0
    /\ hadJob = FALSE
    /\ CrcOff
    /\ FrameOff
    /\ InfoOff

NextSetTemp ==
    \/ Wake
    \/ Dequeue
    \/ BusReply
    \/ Sweep

SpecSetTemp == InitSetTemp /\ [][NextSetTemp]_vars

(***************************************************************************)
(* C10: set_temp with a Celsius value below 5 or above 35 returns failure  *)
(* and writes nothing to the port (its caller puts the job again, no frame *)
(* is pending); with a value from 5 to 35, 5 and 35 included, it writes    *)
(* the frame that carries the value.                                       *)
(***************************************************************************)
CelsiusSetTempAtHead ==
    /\ pc = "dequeue"
    /\ q # <<>>
    /\ Head(q).f = "_setRoomTemp"
    /\ states[Head(q).device].temperatureFormat # "F"

C10_RangeGuardsWrite ==
    [][CelsiusSetTempAtHead =>
          IF Head(q).arg \in 5..35
          THEN /\ pc' = "io"
               /\ wire' = <<_form_frame(crcReset, props[Head(q).device], 18, 1,
                                        <<Head(q).arg>>)>>
          ELSE /\ pc' # "io"
               /\ wire' = <<>>
               /\ q' = Append(Tail(q), Head(q))]_vars

\* the job for 36 degrees has been executed: nothing was written or read,
\* and the job is in the queue again
C10_Witness ==
    /\ pc = "sweep"
    /\ hadJob
    /\ states[1].temperatureFormat = "C"
    /\ q = <<tempJob(36, 1)>>
    /\ wire = <<>>
    /\ rx = None

(***************************************************************************)
(* The decoder on its own: a reply is drawn, and either _parseDCB is       *)
(* applied to it or update_device_info goes on from its read.              *)
(***************************************************************************)
\* the longest reply drawn: the block of a model 4 device and its checksum
MaxBlockLen == 52

\* lengths that end before the model ID, before heatingOn, before and
\* after the clock echo of the models 2, 3 and 4
BlockLens == {3, 13, 44, 45, 48, 49, 50, MaxBlockLen}

\* the model IDs 0 .. 4 and one that names no model
ModelIDs == 0..5

\* the raw 16-bit values of the three temperature fields
TempRaws == {215, 65535}

\* the codes of the enumerated fields
EnumCodes == {0, 1, 9}

\* a reply of n bytes: the model ID at 9+4, the code in the enumerated
\* fields, the three temperatures big-endian, heatingOn at 9+35, and every
\* other byte equal to its own index
StatusBlock(n, model_id, code, remote, floor, air, heating_on) ==
    [i \in 1..n |->
        LET k == i - 1
        IN  IF k = 9 + 4 THEN model_id
            ELSE IF k \in {9 + 2, 9 + 5, 9 + 7, 9 + 13, 9 + 16, 9 + 23} THEN code
            ELSE IF k = 9 + 28 THEN remote \div 256
            ELSE IF k = 9 + 29 THEN remote % 256
            ELSE IF k = 9 + 30 THEN floor \div 256
            ELSE IF k = 9 + 31 THEN floor % 256
            ELSE IF k = 9 + 32 THEN air \div 256
            ELSE IF k = 9 + 33 THEN air % 256
            ELSE IF k = 9 + 35 THEN heating_on
            ELSE k]

StatusBlocks ==
    {StatusBlock(n, model_id, code, remote, floor, air, heating_on) :
        n \in BlockLens, model_id \in ModelIDs, code \in EnumCodes,
        remote \in TempRaws, floor \in TempRaws, air \in TempRaws,
        heating_on \in {0, 1}}

\* the record update_device_info stored on an earlier call
StoredInfo == replyInfo[PrtReply]

InitInfo ==
    /\ reply \in StatusBlocks
                 \cup {addCCITTtoBytearray(crcReset, b) : b \in StatusBlocks}
    /\ parsed = <<>>
    /\ returned = FALSE
    /\ infoPhase = "reply"
    /\ deviceInfo \in {<<>>, StoredInfo}
    /\ CrcOff
    /\ FrameOff
    /\ PluginOff

\* PyMiser._parseDCB(reply)
ParseDCB ==
    /\ infoPhase = "reply"
    /\ IF IndexOutOfRange(reply)
       THEN infoPhase' = "parseRaised" /\ UNCHANGED parsed
       ELSE infoPhase' = "parsed" /\ parsed' = _parseDCB(reply)
    /\ UNCHANGED <<reply, returned, crcVars, frameVars, schedVars>>

\* PyMiser.update_device_info from the read of _request_dcb on
UpdateDeviceInfo ==
    /\ infoPhase = "reply"
    /\ IF ~verifyCCITTfromByteArray(crcReset, reply)
       THEN /\ infoPhase' = "updated"
            /\ returned' = FALSE
            /\ UNCHANGED deviceInfo
       ELSE IF IndexOutOfRange(reply)
       THEN /\ infoPhase' = "updateRaised"
            /\ UNCHANGED <<returned, deviceInfo>>
       ELSE /\ infoPhase' = "updated"
            /\ returned' = TRUE
            /\ deviceInfo' = _parseDCB(reply)
    /\ UNCHANGED <<reply, parsed, crcVars, frameVars, q, execVars, comm_port_open,
                   devices, props, states, timeVars, tickVars>>

NextInfo ==
    \/ ParseDCB
    \/ UpdateDeviceInfo

SpecInfo == InitInfo /\ [][NextInfo]_vars

\* the raw 16-bit value at dcb[k], dcb[k + 1] of the reply
RawAt(k) == At(reply, k) * 256 + At(reply, k + 1)

(***************************************************************************)
(* C11 (as stated): when the two raw bytes of remoteAirTemp, floorTemp or  *)
(* airTemp are 0xFF 0xFF, the decoded field is None, not a number.         *)
(***************************************************************************)
C11_SentinelAbsent ==
    infoPhase = "parsed" =>
        /\ RawAt(9 + 28) = 65535 =>
               TempAbsent(reply, 9 + 28) /\ parsed.remoteAirTemp = None
        /\ RawAt(9 + 30) = 65535 =>
               TempAbsent(reply, 9 + 30) /\ parsed.floorTemp = None
        /\ RawAt(9 + 32) = 65535 =>
               TempAbsent(reply, 9 + 32) /\ parsed.airTemp = None

(***************************************************************************)
(* C12: the record decoded from a block with model ID 4 contains           *)
(* hotWaterOn; the record for model ID 0 or 1 contains neither hotWaterOn  *)
(* nor a clock-echo field; the records for the model IDs 2 and 3 contain   *)
(* the four clock-echo fields and no hotWaterOn.                           *)
(***************************************************************************)
ClockFields == {"weekDayNumber", "timeHour", "timeMinute", "timeSecond"}

C12_ModelFields ==
    infoPhase = "parsed" =>
        /\ parsed.modelID = 4 => "hotWaterOn" \in DOMAIN parsed
        /\ parsed.modelID \in {0, 1} =>
               /\ "hotWaterOn" \notin DOMAIN parsed
               /\ ClockFields \cap DOMAIN parsed = {}
        /\ parsed.modelID \in {2, 3} =>
               /\ ClockFields \subseteq DOMAIN parsed
               /\ "hotWaterOn" \notin DOMAIN parsed

\* a block of a model 4 device has been decoded, with its hot water byte
C12_Witness ==
    /\ infoPhase = "parsed"
    /\ parsed.modelID = 4
    /\ "hotWaterOn" \in DOMAIN parsed
    /\ parsed.hotWaterOn = 9 + 36

(***************************************************************************)
(* C13 (as stated): decoding a 44-byte block of model 2 whose airTemp raw  *)
(* value is 215 succeeds, with airTemp 21 and heatingOn the byte at 9+35.  *)
(***************************************************************************)
\* _parseDCB has been applied to a block of model 2 with airTemp raw 215
Model2Air215 ==
    /\ infoPhase \in {"parsed", "parseRaised"}
    /\ Len(reply) > 9 + 33
    /\ At(reply, 9 + 4) = 2
    /\ RawAt(9 + 32) = 215

C13_Block44Decodes ==
    (Model2Air215 /\ Len(reply) = 44) =>
        /\ infoPhase = "parsed"
        /\ parsed.airTemp = 21
        /\ parsed.heatingOn = At(reply, 9 + 35)

(***************************************************************************)
(* C13 (amended): decoding a block of at least 49 bytes of model 2 whose   *)
(* airTemp raw value is 215 succeeds, with airTemp 21 (the raw value       *)
(* divided by 10, truncated) and heatingOn the byte at 9+35.               *)
(***************************************************************************)
C13_AirTempTruncated ==
    (Model2Air215 /\ Len(reply) >= 49) =>
        /\ infoPhase = "parsed"
        /\ parsed.airTemp = 21
        /\ parsed.heatingOn = At(reply, 9 + 35)

\* a block of 49 bytes of model 2 has been decoded
C13_Witness ==
    /\ Model2Air215
    /\ Len(reply) = 49
    /\ infoPhase = "parsed"
    /\ parsed.airTemp = 21
    /\ parsed.heatingOn = 1

(***************************************************************************)
(* C7 (as stated): for every buffer b, of every length,                    *)
(* verifyCRC(appendCRC(b)) is true: appendCRC returns a buffer and         *)
(* verifyCRC accepts it.                                                   *)
(***************************************************************************)
C7_RoundTripAnyLength ==
    /\ crcPhase = "raised" => buf = TypeError
    /\ crcPhase = "verifiedAppended" => verdict = TRUE

(***************************************************************************)
(* C7 (amended): for every buffer b of at least 3 bytes,                   *)
(* verifyCRC(appendCRC(b)) is true; the shorter ones are refused (1 or 2   *)
(* bytes) or make appendCRC raise (0 bytes).                               *)
(***************************************************************************)
C7_RoundTrip ==
    /\ crcPhase = "verifiedAppended" /\ Len(buf) >= 3 => verdict = TRUE
    /\ crcPhase = "verifiedAppended" /\ Len(buf) < 3 => verdict = FALSE
    /\ crcPhase = "raised" => buf \in {TypeError, IndexError}

C7_Witness ==
    /\ crcPhase = "verifiedAppended"
    /\ Len(buf) = MaxBufLen
    /\ crcObj # crcReset
    /\ verdict = TRUE

(***************************************************************************)
(* C8: verifyCRC returns false for every buffer of fewer than 3 bytes and  *)
(* for an absent buffer, whatever the bytes are.                           *)
(***************************************************************************)
C8_ShortRejected ==
    crcPhase \in {"verified", "verifiedAppended"} /\ (buf = None \/ Len(buf) < 3)
        => verdict = FALSE

\* <<255, 255>> is the checksum of the empty prefix
C8_Witness ==
    /\ crcPhase = "verified"
    /\ buf = <<255, 255>>
    /\ verdict = FALSE

(***************************************************************************)
(* C9: in every frame _form_frame builds, with or without payload, the     *)
(* byte at offset 1 is 10 + the payload length and is the number of bytes  *)
(* of the frame.                                                           *)
(***************************************************************************)
C9_LengthField ==
    framePhase = "formed" =>
        /\ frame # ValueError
        /\ frame[2] = 10 + (IF fArgs.payload = None THEN 0 ELSE Len(fArgs.payload))
        /\ frame[2] = Len(frame)

C9_Witness ==
    /\ framePhase = "formed"
    /\ fArgs.payload # None
    /\ Len(fArgs.payload) = MaxPayloadLen
    /\ Len(frame) = 10 + MaxPayloadLen

(***************************************************************************)
(* C14 (as stated): a poll, clock-sync, set-temperature or hot-water job   *)
(* whose device has no address, or an address that is not an integer, is   *)
(* dropped: its execution writes nothing to the bus, does not put the job  *)
(* again and leaves the loop running, on its way to the sweeps of the tick. *)
(***************************************************************************)
NoAddressAtHead ==
    /\ pc = "dequeue"
    /\ q # <<>>
    /\ Head(q).f \in RetryKinds
    /\ Len(_addressFromProps(Head(q).device)) # 2

C14_NoAddressDropped ==
    [][NoAddressAtHead => /\ q' = Tail(q)
                          /\ wire' = wire
                          /\ pc' = "sweep"]_vars

(***************************************************************************)
(* C15: the step that ends an iteration appends, when the time since the   *)
(* last poll sweep exceeds the poll interval, exactly one poll job per     *)
(* device and restarts that time, and appends no poll job otherwise; the   *)
(* same holds for the clock-sync jobs with their own time and interval,    *)
(* whatever the poll sweep does; the poll jobs of a step precede its       *)
(* clock-sync jobs; nothing else is appended and the queue before is kept. *)
(***************************************************************************)
SweepStep == pc = "sweep" /\ pc' = "sleep"

PollDue == sincePoll > poll_interval
SyncDue == sinceSync > clock_sync_interval

\* the number of times job occurs in jobs
Count(jobs, job) == Cardinality({i \in DOMAIN jobs : jobs[i] = job})

C15_SweepsWhenDue ==
    [][SweepStep =>
         /\ Len(q') >= Len(q)
         /\ SubSeq(q', 1, Len(q)) = q
         /\ LET put == SubSeq(q', Len(q) + 1, Len(q'))
            IN  /\ \A d \in devices :
                      /\ Count(put, pollJob(d)) = IF PollDue THEN 1 ELSE 0
                      /\ Count(put, syncJob(d)) = IF SyncDue THEN 1 ELSE 0
                /\ \A i \in DOMAIN put :
                      put[i] \in {pollJob(d) : d \in devices}
                                   \cup {syncJob(d) : d \in devices}
                /\ \A i, j \in DOMAIN put :
                      (put[i].f = "_pollDevice" /\ put[j].f = "_syncDeviceClock")
                          => i < j
         /\ sincePoll' = IF PollDue THEN 0 ELSE sincePoll
         /\ sinceSync' = IF SyncDue THEN 0 ELSE sinceSync]_vars

\* both sweeps have just fired behind a job that was waiting: the poll job
\* of the device, then its clock-sync job, at the tail
C15_Witness ==
    /\ pc = "sleep"
    /\ sincePoll = 0
    /\ sinceSync = 0
    /\ devices # {}
    /\ Len(q) = 3
    /\ q[2] = pollJob(1)
    /\ q[3] = syncJob(1)

(***************************************************************************)
(* C16: a checksum computation does not depend on the computations the     *)
(* object ran before: whatever state they left the two accumulators in,    *)
(* the checksum of the buffer, the buffer stored with its checksum and the *)
(* verdict of the verification are those of an object with both           *)
(* accumulators at 0xFF.                                                   *)
(***************************************************************************)
C16_HistoryIndependent ==
    (crcPhase = "input" /\ buf # None) =>
        /\ ccitt(crcObj, buf) = ccitt(crcReset, buf)
        /\ addCCITTtoBytearray(crcObj, buf) = addCCITTtoBytearray(crcReset, buf)
        /\ verifyCCITTfromByteArray(crcObj, buf)
               = verifyCCITTfromByteArray(crcReset, buf)

\* an earlier computation has left the accumulators away from 0xFF, 0xFF and
\* a buffer of MaxBufLen bytes is about to be summed
C16_Witness ==
    /\ crcPhase = "input"
    /\ crcObj # crcReset
    /\ buf # None
    /\ Len(buf) = MaxBufLen
    /\ ccitt(crcObj, buf) # <<255, 255>>

(***************************************************************************)
(* C17 (as stated): update_device_info on a reply that passes the checksum *)
(* but is shorter than the indices the decoder reads returns failure, and  *)
(* does not raise.                                                         *)
(***************************************************************************)
\* update_device_info has been applied to such a reply
ShortBlockRead ==
    /\ infoPhase \in {"updated", "updateRaised"}
    /\ verifyCCITTfromByteArray(crcReset, reply)
    /\ IndexOutOfRange(reply)

C17_ShortBlockFails == ShortBlockRead => (infoPhase = "updated" /\ ~returned)

(***************************************************************************)
(* C18: the frame a job has written carries the function code WRITE        *)
(* exactly when it carries a payload, and READ otherwise.  The frame of    *)
(* set_temp has start register 18 and one payload byte, that of            *)
(* set_hw_on_state register 42 and one byte, that of _syncClock register   *)
(* 43 and the four bytes weekday, hour, minute, second; each of the three  *)
(* carries the length of its payload in bytes 6 and 7, low byte first.     *)
(***************************************************************************)
\* the frame the job in execution has written (bytes 0.. are entries 1..)
Written == wire[1]

\* the payload bytes of the written frame
WrittenPayload == SubSeq(Written, 9, Len(Written) - 2)

C18_WriteFrames ==
    pc = "io" =>
        /\ Len(wire) = 1
        /\ Written[4] = IF phase \in {"temp", "hw", "clock"}
                        THEN FUNCTION_WRITE ELSE FUNCTION_READ
        /\ (Written[4] = FUNCTION_WRITE) <=> (WrittenPayload # <<>>)
        /\ phase \in {"temp", "hw", "clock"} =>
              /\ Written[7] = Len(WrittenPayload)
              /\ Written[8] = 0
        /\ phase = "temp" =>
              /\ <<Written[5], Written[6]>> = <<18, 0>>
              /\ WrittenPayload \in {<<states[cur.device].setRoomTemp>>, <<cur.arg>>}
        /\ phase = "hw" =>
              /\ <<Written[5], Written[6]>> = <<42, 0>>
              /\ WrittenPayload = <<cur.arg>>
        /\ phase = "clock" =>
              /\ <<Written[5], Written[6]>> = <<43, 0>>
              /\ Len(WrittenPayload) = 4
              /\ \E dt \in ClockSamples :
                    SubSeq(WrittenPayload, 1, 3) = <<dt.weekday, dt.hour, dt.minute>>
              /\ WrittenPayload[4] \in 0..59

\* a clock write is on the bus
C18_Witness ==
    /\ pc = "io"
    /\ phase = "clock"
    /\ Written[4] = FUNCTION_WRITE
    /\ Written[5] = 43
    /\ Written[7] = 4
    /\ Len(Written) = 14

(***************************************************************************)
(* _syncClock on its own: the local time is read, the frame is built and   *)
(* written.                                                                *)
(***************************************************************************)
\* datetime.datetime.now(): isoweekday, hour, minute and every second
ClockTimes ==
    [weekday : {1, 7}, hour : {0, 23}, minute : {0, 59}, second : 0..59]

InitClock ==
    /\ fArgs \in [address : {1, 31}, dt : ClockTimes]
    /\ frame = <<>>
    /\ framePhase = "now"
    /\ CrcOff
    /\ InfoOff
    /\ SchedOff

\* _syncClock up to comm_port.write(frame)
SyncClockWrite ==
    /\ framePhase = "now"
    /\ frame' = _form_frame(crcReset, fArgs.address, 43, 4, clockPayload(fArgs.dt))
    /\ framePhase' = "clockWritten"
    /\ UNCHANGED <<fArgs, crcVars, infoVars, schedVars>>

NextClock == SyncClockWrite

SpecClock == InitClock /\ [][NextClock]_vars

(***************************************************************************)
(* C19 (as stated): the seconds byte of the clock frame is the current     *)
(* second plus 2, modulo 60, for every second 0..59: 58 gives 0 and 59     *)
(* gives 1.                                                                *)
(***************************************************************************)
C19_SecondsModulo60 ==
    framePhase = "clockWritten" => frame[12] = (fArgs.dt.second + 2) % 60

(***************************************************************************)
(* C20: the clock write succeeds exactly when the reply read has 7 bytes   *)
(* and passes the checksum.  On success syncClock goes on to write the     *)
(* room temperature; on an empty reply, a reply of another length (its     *)
(* checksum valid or not) or 7 bytes with a wrong checksum it fails: the   *)
(* clock-sync job is put again and nothing more is written.                *)
(***************************************************************************)
\* the read of _syncClock returns, for a device whose room temperature
\* set_temp accepts
ClockReplyRead ==
    /\ pc = "io"
    /\ phase = "clock"
    /\ rx' # None
    /\ tempAccepted(states[cur.device].setRoomTemp,
                    unitOf(cur.device, TEMP_UNIT_CELSIUS))

C20_ClockReply ==
    [][ClockReplyRead =>
         IF Len(rx') = 7 /\ verifyCCITTfromByteArray(crcReset, rx')
         THEN /\ pc' = "io"
              /\ phase' = "temp"
              /\ Len(wire') = 1
              /\ q' = q
         ELSE /\ pc' = "sweep"
              /\ wire' = <<>>
              /\ q' = Append(q, cur)]_vars

\* the 7-byte reply with a valid checksum has been read and the temperature
\* write of the clock sync is on the bus
C20_Witness ==
    /\ pc = "io"
    /\ phase = "temp"
    /\ cur.f = "_syncDeviceClock"
    /\ rx = AckReply
    /\ Len(rx) = 7

(***************************************************************************)
(* C21 (as stated): a decoded block whose vendor, frost-protection,        *)
(* sensor, run-mode or model code is none of the enumerated ones has the   *)
(* name "(unknown)" in that field, and a block long enough for the indices *)
(* read is decoded whatever its codes are.                                 *)
(***************************************************************************)
\* the vendor codes with a name: Heatmiser and OEM
VendorCodes == {0, 1}

C21_UnknownCodes ==
    /\ infoPhase = "parseRaised" => IndexOutOfRange(reply)
    /\ infoPhase = "parsed" =>
          /\ At(reply, 9 + 2) \notin VendorCodes => parsed.vendor = UNKNOWN_NAME
          /\ At(reply, 9 + 7) \notin 0..(Len(FROST_PROTECTION_NAMES) - 1)
                => parsed.frostProtection = UNKNOWN_NAME
          /\ At(reply, 9 + 13) \notin 0..(Len(SENSOR_NAMES) - 1)
                => parsed.sensor = UNKNOWN_NAME
          /\ At(reply, 9 + 23) \notin 0..(Len(RUN_MODE_NAMES) - 1)
                => parsed.runMode = UNKNOWN_NAME
          /\ At(reply, 9 + 4) \notin 0..(Len(MODEL_NAMES) - 1)
                => parsed.model = UNKNOWN_NAME

(***************************************************************************)
(* C22: for model 4 hotWaterOn is the byte at 9+36 and the clock echo      *)
(* (weekday, hour, minute, second) the bytes at 9+37 .. 9+40; for the      *)
(* models 2 and 3 the clock echo is the bytes at 9+36 .. 9+39, one byte    *)
(* earlier; the fields up to heatingOn are read at the same offsets for    *)
(* every model.                                                            *)
(***************************************************************************)
\* the clock echo of the decoded record
ClockEcho ==
    <<parsed.weekDayNumber, parsed.timeHour, parsed.timeMinute, parsed.timeSecond>>

C22_HotWaterShift ==
    infoPhase = "parsed" =>
        /\ parsed.modelID = At(reply, 9 + 4)
        /\ parsed.address = At(reply, 3)
        /\ parsed.switchDifferential = At(reply, 9 + 6)
        /\ parsed.outputDelay = At(reply, 9 + 10)
        /\ parsed.sensorSelectionCode = At(reply, 9 + 13)
        /\ parsed.programModeCode = At(reply, 9 + 16)
        /\ parsed.frostProtectTemp = At(reply, 9 + 17)
        /\ parsed.setRoomTemp = At(reply, 9 + 18)
        /\ parsed.floorMaxLimit = At(reply, 9 + 19)
        /\ parsed.On = At(reply, 9 + 21)
        /\ parsed.keyLock = At(reply, 9 + 22)
        /\ parsed.holidayHours = At(reply, 9 + 24) * 256 + At(reply, 9 + 25)
        /\ parsed.airTemp = RawAt(9 + 32) \div 10
        /\ parsed.heatingOn = At(reply, 9 + 35)
        /\ parsed.modelID = 4 =>
              /\ parsed.hotWaterOn = At(reply, 9 + 36)
              /\ ClockEcho = <<At(reply, 9 + 37), At(reply, 9 + 38),
                               At(reply, 9 + 39), At(reply, 9 + 40)>>
        /\ parsed.modelID \in {2, 3} =>
              ClockEcho = <<At(reply, 9 + 36), At(reply, 9 + 37),
                            At(reply, 9 + 38), At(reply, 9 + 39)>>

\* a block of model 4 has been decoded: the bytes of a status block carry
\* their own index, so the clock echo shows the offsets read
C22_Witness ==
    /\ infoPhase = "parsed"
    /\ parsed.modelID = 4
    /\ parsed.hotWaterOn = 9 + 36
    /\ ClockEcho = <<9 + 37, 9 + 38, 9 + 39, 9 + 40>>
    /\ parsed.heatingOn = 1

(***************************************************************************)
(* The loop kept running: the plugin has started, with the port open or    *)
(* not and the device addressed or not, no sweep comes due, and the bus    *)
(* answers anything.  The loop's thread keeps taking its steps while it    *)
(* has one: its sleep returns and its read has a timeout.  A discovery is  *)
(* requested while no job waits, the other requests at any time.           *)
(***************************************************************************)
InitFifo ==
    /\ q = <<>>
    /\ pc = "sleep"
    /\ cur = NoJob
    /\ phase = ""
    /\ wire = <<>>
    /\ fault = ""
    /\ rx = None
    /\ comm_port_open \in BOOLEAN
    /\ devices = Devices
    /\ props \in PropsChoices
    /\ states \in StatesChoices
    /\ deviceInfo = <<>>
    /\ sincePoll = 0
    /\ sinceSync = 0
    /\ poll_interval = MaxElapsed
    /\ clock_sync_interval = MaxElapsed
    /\ ranThisTick = 0
    /\ hadJob = FALSE
    /\ CrcOff
    /\ FrameOff
    /\ InfoOff

TickFifo == Wake \/ Dequeue \/ BusReply \/ Sweep

NextFifo ==
    \/ Wake
    \/ Dequeue
    \/ BusReply
    \/ Sweep
    \/ \E d \in devices : pollDevice(d)
    \/ \E d \in devices : syncDeviceClock(d)
    \/ \E d \in devices, t \in ActionTemps : setRoomTemp(t, d)
    \/ \E d \in devices : setHotWaterOn(d)
    \/ \E d \in devices : setHotWaterAsScheduled(d)
    \/ Load = 0 /\ discoverDevices

SpecFifo == InitFifo /\ [][NextFifo]_vars /\ WF_vars(TickFifo)

(***************************************************************************)
(* C23: while the loop keeps running, every job in the queue is taken from *)
(* it and executed, once for each time it was put and in the order of the  *)
(* puts: a step removes nothing from the queue but its head, the step that *)
(* removes the head is the one execution of that job, a job starts to      *)
(* execute only by being removed from the head, and the jobs that wait     *)
(* keep their order; a job that is in the queue eventually is at the head  *)
(* with the loop about to take it, and the loop then takes it.             *)
(***************************************************************************)
\* s is a prefix of t
IsPrefix(s, t) == Len(s) <= Len(t) /\ SubSeq(t, 1, Len(s)) = s

\* the loop takes the head of the queue and calls its function
ExecutesHead ==
    /\ pc = "dequeue"
    /\ q # <<>>
    /\ IsPrefix(Tail(q), q')
    /\ ranThisTick' = ranThisTick + 1
    /\ pc' = "io" => cur' = Head(q)

InQueue(job) == \E i \in 1..Len(q) : q[i] = job

\* the jobs the requests of the host put
FifoJobs ==
    {pollJob(1), syncJob(1), hwJob(1, 1), hwJob(1, 0)}
        \cup {tempJob(t, 1) : t \in ActionTemps}
        \cup {probeJob(a) : a \in 1..LastProbeAddress}

\* the job is at the head and the loop is about to take it
AtHead(job) == pc = "dequeue" /\ q # <<>> /\ Head(q) = job

C23_FifoOnce ==
    /\ [][/\ IsPrefix(q, q') \/ ExecutesHead
          /\ (cur' # cur /\ cur' # NoJob) => ExecutesHead
          /\ (pc = "dequeue" /\ q # <<>> /\ pc' # pc) => ExecutesHead]_vars
    /\ \A job \in FifoJobs :
          /\ InQueue(job) ~> (AtHead(job) \/ pc = "crashed")
          /\ AtHead(job) ~> (pc # "dequeue" /\ ranThisTick = 1)

\* a hot-water job is in execution and the clock sync requested after it
\* waits behind
C23_Witness ==
    /\ pc = "io"
    /\ cur = hwJob(1, 1)
    /\ q = <<syncJob(1)>>
    /\ ranThisTick = 1

(***************************************************************************)
(* C24: a clock-sync job starts with the clock write to register 43.  The  *)
(* set-temperature write of the stored set temperature follows only after  *)
(* the acknowledgement of the clock write, and only when that temperature  *)
(* is in the accepted range.  The job ends without being put again only    *)
(* when the second write is answered too; when the clock write is not      *)
(* acknowledged, the stored temperature is out of range or the second      *)
(* write gets no valid reply, the job is put again, to start again with    *)
(* the clock write.                                                        *)
(***************************************************************************)
\* a clock-sync job is in execution, in the step named
Syncing(ph) == pc = "io" /\ cur.f = "_syncDeviceClock" /\ phase = ph

\* the stored set temperature is one set_temp accepts
StoredTempAccepted ==
    tempAccepted(states[cur.device].setRoomTemp, unitOf(cur.device, TEMP_UNIT_CELSIUS))

\* the job in execution has been put again and has written nothing more
PutAgain == pc' = "sweep" /\ q' = Append(q, cur) /\ wire' = <<>>

C24_ClockThenTemp ==
    [][/\ (pc = "dequeue" /\ pc' = "io" /\ cur'.f = "_syncDeviceClock") =>
             /\ phase' = "clock"
             /\ wire'[1][5] = 43
       /\ (Syncing("clock") /\ rx' # None) =>
             IF Len(rx') = 7 /\ replyOK[rx'] /\ StoredTempAccepted
             THEN /\ pc' = "io" /\ cur' = cur /\ phase' = "temp"
                  /\ q' = q
                  /\ wire'[1][5] = 18
                  /\ SubSeq(wire'[1], 9, Len(wire'[1]) - 2)
                         = <<states[cur.device].setRoomTemp>>
             ELSE PutAgain
       /\ (Syncing("temp") /\ pc' # pc) =>
             IF replyOK[rx']
             THEN pc' = "sweep" /\ q' = q /\ wire' = <<>>
             ELSE PutAgain]_vars

\* the clock write of a newly created device was acknowledged, its stored
\* set temperature is out of range, and the job has been put again
C24_Witness ==
    /\ pc = "sweep"
    /\ ranThisTick = 1
    /\ rx = AckReply
    /\ q = <<syncJob(1)>>
    /\ devices = {1}
    /\ states[1] = NewDeviceStates
    /\ wire = <<>>

(***************************************************************************)
(* C25 (as stated): no step of the loop (a poll sweep, the re-queueing of  *)
(* a job, the poll after a command) puts a poll job for a device that has  *)
(* a poll job in the queue already.                                        *)
(***************************************************************************)
C25_NoSecondPoll ==
    [][pc' # pc =>
         \A d \in devices :
            Count(q', pollJob(d)) > Count(q, pollJob(d))
                => Count(q, pollJob(d)) = 0]_vars

(***************************************************************************)
(* C26 (as stated): while the port is not open, the execution of a job of  *)
(* any kind, for a device with an address or for a probe, writes nothing   *)
(* to the bus and reads nothing from it, and drops the job: the queue is   *)
(* left without it and the loop goes on to its sweeps.                     *)
(***************************************************************************)
ClosedPortAtHead ==
    /\ pc = "dequeue"
    /\ q # <<>>
    /\ ~comm_port_open
    /\ \/ Head(q).f = "_discoverDevice"
       \/ Len(_addressFromProps(Head(q).device)) = 2

C26_ClosedPortDrops ==
    [][ClosedPortAtHead => /\ q' = Tail(q)
                           /\ wire' = wire
                           /\ pc' = "sweep"]_vars

(***************************************************************************)
(* C27: a discovery request puts exactly one probe job for each address    *)
(* from 1 to the last address probed that is not the address of a known   *)
(* device, and none for a known address; nothing else puts a probe job.    *)
(* The execution of a probe job never puts it again, whatever the read     *)
(* returns: nothing, bytes with a bad checksum, or a reply.                *)
(***************************************************************************)
\* the jobs a step has appended to the queue
Put == SubSeq(q', Len(q) + 1, Len(q'))

\* the step puts a probe job
PutsProbe ==
    \E a \in 1..LastProbeAddress : Count(q', probeJob(a)) > Count(q, probeJob(a))

C27_ProbesOnce ==
    [][/\ PutsProbe =>
             /\ UNCHANGED <<pc, cur, wire>>
             /\ IsPrefix(q, q')
             /\ \A i \in DOMAIN Put : Put[i].f = "_discoverDevice"
             /\ \A a \in 1..LastProbeAddress :
                   Count(Put, probeJob(a)) =
                       IF a \in _knownDeviceAddresses THEN 0 ELSE 1
       /\ (pc = "io" /\ cur.f = "_discoverDevice" /\ pc' # pc) => q' = q]_vars

\* the device found at address 1 is known, a later discovery has put the
\* probe of address 2 alone, and its read has returned nothing
C27_Witness ==
    /\ devices = {1}
    /\ props = <<1>>
    /\ pc = "sweep"
    /\ rx = <<>>
    /\ q = <<>>
    /\ hadJob
    /\ ranThisTick = 1
    /\ \A a \in 1..LastProbeAddress : a \in _knownDeviceAddresses <=> a = 1

=============================================================================
